---- MODULE Spec2Model ----
(***************************************************************************)
(* A state-machine model of S2SRL/libbots/metalearner.py (class            *)
(* MetaLearner): the TRPO line search of step(), the REINFORCE inner loss  *)
(* of inner_loss(), the gradient step of update_params() and the two-step  *)
(* MAML loop of sample(), and of testGenerate() of                         *)
(* S2SRL/SymbolicExecutor/generateTest2.py.                                *)
(*                                                                         *)
(* Tensors are modelled by integers (a parameter vector is a tuple of      *)
(* integers, a weight mapping a function from names to integers).  What    *)
(* the numeric substrate computes (a surrogate loss, a KL divergence, a    *)
(* gradient, a decoded token sequence, random.random()) is chosen by the   *)
(* environment from small sets.  Floating-point rounding is not modelled.  *)
(***************************************************************************)
EXTENDS Integers, Sequences, FiniteSets, TLC

\* ------------------------------------------------------------------ bounds
\* Largest ls_max_steps a call of step() is given.
MaxLsSteps == 3
\* Number of entries of the flattened policy parameter vector.
ParamDim == 2
\* Largest number of examples given to one call of inner_loss() or, over all
\* its tasks, to one call of sample().
MaxExamples == 2
\* Largest value of self.samples (stochastic decodes per example).
MaxSamples == 3
\* Largest number of tasks given to sample().
MaxTasks == 2
\* Largest number of (train, valid) episode pairs given to step().
MaxEpisodes == 2
\* Largest number of records the input files of testGenerate() hold.
MaxRecords == 11

\* ------------------------------------------------------- values and helpers
\* Python's None; a value that may be None is <<>> or the one-tuple Some(v).
None == <<>>
Some(v) == <<v>>

\* The candidate values of ls_backtrack_ratio, as <<numerator, denominator>>.
LsRatios == {<<1, 2>>, <<1, 3>>}

RECURSIVE Pow(_, _)
Pow(b, e) == IF e = 0 THEN 1 ELSE b * Pow(b, e - 1)

\* Steps are multiples of StepUnit, so that step_size * step is an integer
\* for every step size the line search can reach.
StepUnit == Pow(6, MaxLsSteps)

\* Values of the surrogate loss and of the KL divergence.
LossVals == {-1, 0, 1}
KlVals == {0, 1, 2}
MaxKlVals == {1, 2}

\* Parameter vectors the policy starts from, and step vectors.
ParamVecs == {[i \in 1..ParamDim |-> 0], [i \in 1..ParamDim |-> IF i = 1 THEN 5 ELSE -3]}
StepVecs == {[i \in 1..ParamDim |-> 0],
             [i \in 1..ParamDim |-> IF i = 1 THEN StepUnit ELSE 0],
             [i \in 1..ParamDim |-> IF i = 1 THEN -StepUnit ELSE 2 * StepUnit]}

\* r * v for a rational r = <<n, d>> and an integer vector v.
VecScale(r, v) == [i \in DOMAIN v |-> (r[1] * v[i]) \div r[2]]
VecSub(a, b) == [i \in DOMAIN a |-> a[i] - b[i]]
\* Line 528 with the multiplication lost: the step size stays.
RatMulStuck(r, q) == r
\* Line 528: the product of two rationals.
RatMul(r, q) == <<r[1] * q[1], r[2] * q[2]>>

\* Token sequences a decode of the network can produce.
Seqs == {<<1>>, <<1, 2>>}
\* Values random.random() returns for a reward (lines 210 and 258).
Rewards == {0, 1}

\* Names of the network's parameters and the values they take.
ParamNames == {"enc", "dec"}
WeightVals == {0, 1}
WeightMaps == [ParamNames -> WeightVals]

\* A task: an identifier and its batch of examples (each a question id).
Task(t, n) == [id |-> t, examples |-> [i \in 1..n |-> i]]

\* The Python float 0.0 that line 289 returns as the loss.
ZeroFloat == [kind |-> "float", value |-> 0]
\* A loss tensor (loss_v of line 317).  Its numeric value belongs to the
\* numeric substrate; id tells one tensor from another (the ordinal of the
\* inner_loss call that built it).
LossTensor(id) == [kind |-> "tensor", id |-> id]

VARIABLES
    \* ---- step(): the TRPO meta-optimization step
    st_pc,                \* "idle", "line_search", "returned"
    policy,               \* parameters_to_vector(self.policy.parameters())
    old_params,
    old_loss,
    step,
    step_size,            \* <<numerator, denominator>>
    max_kl,
    ls_max_steps,
    ls_backtrack_ratio,
    ls_iter,              \* number of completed iterations of the for loop
    ls_tried,             \* history: one record per line-search attempt
    episodes,             \* the number of (train, valid) pairs of episodes
    old_pis,              \* None, or the list the call of line 489 returned
    \* ---- the MetaLearner object
    net_params,           \* self.net.named_parameters(): name -> value
    samples,              \* self.samples
    log,                  \* messages given to the module's logger
    \* ---- inner_loss()
    il_pc,                \* "idle", "for_example", "for_sample", "returned"
    il_task,
    il_weights,           \* the weights argument (None or a mapping)
    batch,
    input_batch,
    idx,                  \* 0-based index of the example of the outer loop
    n_drawn,              \* completed iterations of range(self.samples)
    actions,              \* token sequence of the last decode
    r_argmax,             \* None, or the argmax decode of the current example
    argmax_reward,
    sample_reward,
    action_memory,
    net_policies,
    net_actions,
    net_advantages,
    total_samples,
    skipped_samples,
    il_ret,               \* None, or the tuple inner_loss returned
    \* ---- history of the running inner_loss call
    sampled,              \* per example: the set of sequences sampled so far
    baselines,            \* per example: the reward of its argmax decode
    kept_rewards,         \* per kept sample: the reward drawn at line 258
    il_call,              \* number of inner_loss calls begun
    requires_grad,        \* name -> the parameter's requires_grad
    fast_lr,              \* self.fast_lr
    reward_range,         \* the values random.random() yields in this run
    mode,                 \* the method the training driver runs on the object
    \* ---- update_params(), called on its own
    up_pc,                \* "idle", "returned", "raised"
    up_loss,              \* the inner_loss argument
    up_weights,           \* the mapping passed as names_weights_copy
    up_step_size,
    up_oracle,            \* what autograd finds: the gradients, the weights used
    up_ret,               \* the returned mapping, or None
    up_weights_at_call,   \* history: up_weights when the call began
    \* ---- sample()
    sm_pc,                \* "idle", "for_task", "inner1", "inner2", "meta",
                          \* "returned", "raised", "updated"
    tasks,
    task_i,               \* number of tasks the loop has finished
    task_losses,
    sm_total_samples,
    sm_skipped_samples,
    names_weights_copy,
    sm_ret,               \* None, or the tuple sample() returned
    sm_err,               \* the exception that ended sample(), or "none"
    \* ---- history of the running sample() call
    sm_trace,             \* the calls made for the current task, in order
    entry_params,         \* net_params when sample() was entered
    start_weights,        \* per task: the mapping its adaptation started from
    sm_kept,              \* whether an inner_loss call so far kept a sample
    \* ---- testGenerate() of generateTest2.py
    tg_pc,                \* "idle", "loop", "written"
    count,
    question_dict,        \* key -> question_info_new
    test_json,            \* None, or the dictionary dumped to the output file
    tg_keys               \* history: the ID_string of each record, in order

stepVars == <<st_pc, policy, old_params, old_loss, step, step_size, max_kl,
              ls_max_steps, ls_backtrack_ratio, ls_iter, ls_tried, episodes, old_pis>>

objVars == <<net_params, samples, log, requires_grad, fast_lr, reward_range, mode>>

updVars == <<up_pc, up_loss, up_weights, up_step_size, up_oracle, up_ret,
             up_weights_at_call>>

sampleVars == <<sm_pc, tasks, task_i, task_losses, sm_total_samples,
                sm_skipped_samples, names_weights_copy, sm_ret, sm_err,
                sm_trace, entry_params, start_weights, sm_kept>>

innerVars == <<il_pc, il_task, il_weights, batch, input_batch, idx, n_drawn,
               actions, argmax_reward, sample_reward, action_memory,
               net_policies, net_actions, net_advantages, total_samples,
               skipped_samples, il_ret, sampled, baselines, kept_rewards, il_call,
               r_argmax>>

genVars == <<tg_pc, count, question_dict, test_json, tg_keys>>

\* What the steps of inner_loss leave alone.
otherVars == <<stepVars, updVars, sampleVars, genVars>>

vars == <<stepVars, objVars, innerVars, updVars, sampleVars, genVars>>

\* ----------------------------------------------------- quiescent states
ObjIdle ==
    /\ net_params = [k \in ParamNames |-> 0]
    /\ samples = 0
    /\ log = <<>>
    /\ requires_grad = [k \in ParamNames |-> TRUE]
    /\ fast_lr = 1
    /\ reward_range = Rewards

InnerLocalsIdle ==
    /\ il_task = None /\ il_weights = None
    /\ batch = <<>> /\ input_batch = <<>>
    /\ idx = 0 /\ n_drawn = 0
    /\ actions = <<>> /\ argmax_reward = 0 /\ sample_reward = 0
    /\ r_argmax = None
    /\ action_memory = <<>>
    /\ net_policies = <<>> /\ net_actions = <<>> /\ net_advantages = <<>>
    /\ total_samples = 0 /\ skipped_samples = 0
    /\ il_ret = None
    /\ sampled = <<>> /\ baselines = <<>> /\ kept_rewards = <<>>

InnerIdle == il_pc = "idle" /\ il_call = 0 /\ InnerLocalsIdle

UpdateIdle ==
    /\ up_pc = "idle"
    /\ up_loss = ZeroFloat /\ up_weights = None /\ up_step_size = 0
    /\ up_oracle = None /\ up_ret = None /\ up_weights_at_call = None

GenIdle ==
    /\ tg_pc = "idle" /\ count = 0 /\ question_dict = <<>>
    /\ test_json = None /\ tg_keys = <<>>

SampleIdle ==
    /\ sm_pc = "idle"
    /\ tasks = <<>> /\ task_i = 0 /\ task_losses = <<>>
    /\ sm_total_samples = 0 /\ sm_skipped_samples = 0
    /\ names_weights_copy = None
    /\ sm_ret = None /\ sm_err = "none"
    /\ sm_trace = <<>> /\ entry_params = None /\ start_weights = <<>>
    /\ sm_kept = FALSE

\* --------------------------------------------------------------- step()
StepIdle ==
    /\ st_pc = "idle"
    /\ old_params = None /\ old_loss = 0 /\ step = None
    /\ step_size = <<1, 1>> /\ max_kl = 1 /\ ls_max_steps = 0
    /\ ls_backtrack_ratio = <<1, 2>> /\ ls_iter = 0 /\ ls_tried = <<>>
    /\ episodes = 0 /\ old_pis = None

InitStep ==
    /\ mode = "step"
    /\ policy \in ParamVecs
    /\ StepIdle
    /\ ObjIdle
    /\ InnerIdle
    /\ UpdateIdle
    /\ SampleIdle
    /\ GenIdle

\* The test of line 526 with the KL condition lost.
LsAcceptLossOnly(loss, kl, oldLoss, maxKl) == loss - oldLoss < 0

\* The test of line 526 with the strictness lost.
LsAcceptNonStrict(loss, kl, oldLoss, maxKl) == (loss - oldLoss <= 0) /\ (kl <= maxKl)

\* The test of line 526: improve.item() < 0.0 and kl.item() < max_kl.
LsAccept(loss, kl, oldLoss, maxKl) == (loss - oldLoss < 0) /\ (kl < maxKl)

\* Line 420: the distribution self.policy gives for the valid episodes of
\* pair e under parameters adapted from p; grad tells whether it was built
\* with gradients enabled, so that it carries a graph.
Policy(e, p, grad) == [episode |-> e, under |-> p, grad |-> grad]

\* Line 421: Normal(loc=pi.loc.detach(), scale=pi.scale.detach()).
detach_distribution(pi) == [pi EXCEPT !.grad = FALSE]

\* Line 417: torch.set_grad_enabled(old_pi is None).
GradEnabled(old_pi) == old_pi = None

\* Lines 425-426 with the test lost: the reference is always recomputed.
RefPiRecomputed(old_pi, pi) == detach_distribution(pi)

\* Lines 425-426: the reference distribution of one pair of episodes.
RefPi(old_pi, pi) == IF old_pi = None THEN detach_distribution(pi) ELSE old_pi[1]

\* Lines 400-480: what surrogate_loss does with the distributions, for n
\* pairs of episodes under parameters p; oldpis is None or a list of n
\* distributions.  pis is the third value returned, refs the old_pi each loss
\* and KL was computed against, grad_enabled the mode of each pair.
surrogate_loss(p, n, oldpis) ==
    LET given == IF oldpis = None THEN [e \in 1..n |-> None]
                 ELSE [e \in 1..n |-> Some(oldpis[e])]
        grad == [e \in 1..n |-> GradEnabled(given[e])]
        pi == [e \in 1..n |-> Policy(e, p, grad[e])]
    IN  [pis |-> [e \in 1..n |-> detach_distribution(pi[e])],
         refs |-> [e \in 1..n |-> RefPi(given[e], pi[e])],
         grad_enabled |-> grad]

\* Lines 489-518: the old loss, the step direction and the saved parameters.
StepBegin ==
    /\ st_pc = "idle"
    /\ \E n \in 1..MaxEpisodes :
          /\ episodes' = n
          /\ old_pis' = surrogate_loss(policy, n, None).pis
    /\ \E l \in LossVals, s \in StepVecs, mk \in MaxKlVals,
          n \in 0..MaxLsSteps, r \in LsRatios :
          /\ old_loss' = l
          /\ step' = s
          /\ max_kl' = mk
          /\ ls_max_steps' = n
          /\ ls_backtrack_ratio' = r
    /\ old_params' = policy
    /\ step_size' = <<1, 1>>
    /\ ls_iter' = 0
    /\ ls_tried' = <<>>
    /\ st_pc' = "line_search"
    /\ UNCHANGED <<policy, objVars, innerVars, updVars, sampleVars, genVars>>

\* Line 521 with the step taken from the parameters of the attempt before.
LsCandidateFromCurrent(old, size, stp) == VecSub(policy, VecScale(size, stp))

\* Line 521: old_params - step_size * step.
LsCandidate(old, size, stp) == VecSub(old, VecScale(size, stp))

\* Lines 519-528: one iteration of the for loop of the line search.
LsAttempt ==
    /\ st_pc = "line_search"
    /\ ls_iter < ls_max_steps
    /\ policy' = LsCandidate(old_params, step_size, step)
    /\ \E loss \in LossVals, kl \in KlVals :
          /\ ls_tried' = Append(ls_tried,
                 [step_size |-> step_size, loss |-> loss, kl |-> kl,
                  params |-> policy',
                  refs |-> surrogate_loss(policy', episodes, old_pis).refs,
                  grad_enabled |-> surrogate_loss(policy', episodes, old_pis).grad_enabled])
          /\ IF LsAccept(loss, kl, old_loss, max_kl)
             THEN /\ st_pc' = "returned"
                  /\ UNCHANGED <<step_size, ls_iter>>
             ELSE /\ step_size' = RatMul(step_size, ls_backtrack_ratio)
                  /\ ls_iter' = ls_iter + 1
                  /\ UNCHANGED st_pc
    /\ UNCHANGED <<old_params, old_loss, step, max_kl, ls_max_steps, ls_backtrack_ratio,
                   episodes, old_pis>>
    /\ UNCHANGED <<objVars, innerVars, updVars, sampleVars, genVars>>

\* The else branch left out: the last candidate stays.
LsNoRevertParams == policy

\* The parameters the else branch of the for loop writes (line 530).
LsRevertParams == old_params

\* Lines 529-530: the loop ran out without a break.
LsRevert ==
    /\ st_pc = "line_search"
    /\ ls_iter = ls_max_steps
    /\ policy' = LsRevertParams
    /\ st_pc' = "returned"
    /\ UNCHANGED <<old_params, old_loss, step, step_size, max_kl, ls_max_steps,
                   ls_backtrack_ratio, ls_iter, ls_tried, episodes, old_pis>>
    /\ UNCHANGED <<objVars, innerVars, updVars, sampleVars, genVars>>

NextStep == StepBegin \/ LsAttempt \/ LsRevert

SpecStep == InitStep /\ [][NextStep]_vars

\* step() is straight-line code in one thread: once called, each iteration of
\* the for loop and its else branch run as soon as they can.
SpecStepFair == SpecStep /\ WF_vars(LsAttempt) /\ WF_vars(LsRevert)

\* ----------------------------------------------------------- inner_loss()
\* Lines 83-90: with N = 0 the support set is the task itself.
establish_support_set(train_data, N) == IF N = 0 THEN <<train_data>> ELSE <<>>

RECURSIVE pack_batch_no_out(_)
\* model.pack_batch_no_out: one row of input_batch per example of the batch.
pack_batch_no_out(b) ==
    IF b = <<>> THEN <<>> ELSE Head(b).examples \o pack_batch_no_out(Tail(b))

\* self.net.insert_new_parameter(weights, True): the network holds the given
\* tensors under their names from then on.
insert_new_parameter(params, weights) ==
    [k \in DOMAIN params |-> IF k \in DOMAIN weights THEN weights[k] ELSE params[k]]

\* utils.duplicate: the two token sequences are identical.
duplicate(s1, s2) == s1 = s2

\* Lines 238-243 with the argmax decode of the example counted as seen.
DuplicateFlagOrArgmax(memory, acts) ==
    \/ Len(memory) > 0 /\ \E i \in 1..Len(memory) : duplicate(memory[i], acts)
    \/ duplicate(r_argmax.actions, acts)

\* Lines 238-243, compared with the last kept sample only.
DuplicateFlagLastOnly(memory, acts) ==
    Len(memory) > 0 /\ duplicate(memory[Len(memory)], acts)

\* Lines 238-243: duplicate_flag after the scan of action_memory.
DuplicateFlag(memory, acts) ==
    Len(memory) > 0 /\ \E i \in 1..Len(memory) : duplicate(memory[i], acts)

\* Line 281 with the advantage added once per sample, not once per token.
AdvantagesOncePerSample(sr, ar, acts) == <<sr - ar>>

\* Line 281: [sample_reward - argmax_reward] * len(actions).
Advantages(sr, ar, acts) == [i \in 1..Len(acts) |-> sr - ar]

\* The logits r_sample of one stochastic decode: one row per token.
RSample(i, acts) == [idx |-> i, actions |-> acts]

\* Lines 163-184: the counters, the batch, the inserted weights, the lists.
InnerLossEnter(task, weights) ==
    /\ il_call' = il_call + 1
    /\ il_task' = task
    /\ il_weights' = weights
    /\ total_samples' = 0
    /\ skipped_samples' = 0
    /\ batch' = establish_support_set(task, 0)
    /\ net_params' = IF weights # None
                     THEN insert_new_parameter(net_params, weights[1])
                     ELSE net_params
    /\ input_batch' = pack_batch_no_out(batch')
    /\ net_policies' = <<>> /\ net_actions' = <<>> /\ net_advantages' = <<>>
    /\ idx' = 0 /\ n_drawn' = 0
    /\ actions' = <<>> /\ argmax_reward' = 0 /\ sample_reward' = 0
    /\ r_argmax' = None
    /\ action_memory' = <<>>
    /\ il_ret' = None
    /\ sampled' = <<>> /\ baselines' = <<>> /\ kept_rewards' = <<>>
    /\ il_pc' = "for_example"
    /\ UNCHANGED <<samples, log, requires_grad, fast_lr, reward_range, mode>>

\* Line 228 moved in front of the loop over the examples: the memory of the
\* example before is kept.
FreshMemoryPerCall(memory) == memory

\* Line 228: action_memory = list(), once per example.
FreshMemory(memory) == <<>>

\* Lines 186-228: the argmax decode of the next example and its reward.
ExampleBegin ==
    /\ il_pc = "for_example"
    /\ idx < Len(input_batch)
    /\ \E a \in Seqs, r \in reward_range :
          /\ actions' = a
          /\ r_argmax' = RSample(idx, a)
          /\ argmax_reward' = r
          /\ baselines' = Append(baselines, r)
    /\ action_memory' = FreshMemory(action_memory)
    /\ n_drawn' = 0
    /\ sampled' = Append(sampled, {})
    /\ il_pc' = "for_sample"
    /\ UNCHANGED <<il_task, il_weights, batch, input_batch, idx, sample_reward,
                   net_policies, net_actions, net_advantages, total_samples,
                   skipped_samples, il_ret, kept_rewards, il_call, objVars, otherVars>>

\* Lines 229-281: one iteration of the loop over range(self.samples).
SampleDraw ==
    /\ il_pc = "for_sample"
    /\ n_drawn < samples
    /\ \E a \in Seqs :
          /\ actions' = a
          /\ total_samples' = total_samples + 1
          /\ sampled' = [sampled EXCEPT ![idx + 1] = @ \cup {a}]
          /\ IF ~DuplicateFlag(action_memory, a)
             THEN /\ action_memory' = Append(action_memory, a)
                  /\ \E r \in reward_range :
                        /\ sample_reward' = r
                        /\ kept_rewards' = Append(kept_rewards, r)
                        /\ net_advantages' =
                               net_advantages \o Advantages(r, argmax_reward, a)
                  /\ net_policies' = Append(net_policies, RSample(idx, a))
                  /\ net_actions' = net_actions \o a
                  /\ UNCHANGED skipped_samples
             ELSE /\ skipped_samples' = skipped_samples + 1
                  /\ UNCHANGED <<action_memory, sample_reward, kept_rewards,
                                 net_policies, net_actions, net_advantages>>
    /\ n_drawn' = n_drawn + 1
    /\ UNCHANGED <<il_pc, il_task, il_weights, batch, input_batch, idx, r_argmax,
                   argmax_reward, il_ret, baselines, il_call, objVars, otherVars>>

\* Line 229 exhausted: on to the next example of line 186.
ExampleEnd ==
    /\ il_pc = "for_sample"
    /\ n_drawn = samples
    /\ idx' = idx + 1
    /\ il_pc' = "for_example"
    /\ UNCHANGED <<il_task, il_weights, batch, input_batch, n_drawn, actions,
                   r_argmax, argmax_reward, sample_reward, action_memory, net_policies,
                   net_actions, net_advantages, total_samples, skipped_samples,
                   il_ret, sampled, baselines, kept_rewards, il_call, objVars, otherVars>>

EmptyNotice == "The net_policies is empty!"

\* Lines 286-318 without the test of line 286: the mean is always taken.
InnerLossValueNoGuard(policies, id) == LossTensor(id)

\* Lines 286-318: the loss inner_loss returns.
InnerLossValue(policies, id) ==
    IF policies = <<>> THEN ZeroFloat ELSE LossTensor(id)

\* Lines 286-318: the return of inner_loss.
InnerLossReturn ==
    /\ il_pc = "for_example"
    /\ idx = Len(input_batch)
    /\ log' = IF net_policies = <<>> THEN Append(log, EmptyNotice) ELSE log
    /\ il_ret' = [loss |-> InnerLossValue(net_policies, il_call),
                  total_samples |-> total_samples,
                  skipped_samples |-> skipped_samples]
    /\ il_pc' = "returned"
    /\ UNCHANGED <<il_task, il_weights, batch, input_batch, idx, n_drawn, actions,
                   r_argmax, argmax_reward, sample_reward, action_memory, net_policies,
                   net_actions, net_advantages, total_samples, skipped_samples,
                   sampled, baselines, kept_rewards, il_call, net_params, samples,
                   requires_grad, fast_lr, reward_range, mode, otherVars>>

\* A caller gives inner_loss a task and either no weights or a mapping.
InnerLossCall ==
    /\ il_pc = "idle"
    /\ \E n \in 0..MaxExamples, w \in {None} \cup {Some(m) : m \in WeightMaps} :
          InnerLossEnter(Task(1, n), w)
    /\ UNCHANGED otherVars

InitInner ==
    /\ mode = "inner_loss"
    /\ StepIdle /\ policy = [i \in 1..ParamDim |-> 0]
    /\ UpdateIdle /\ SampleIdle /\ GenIdle
    /\ net_params = [k \in ParamNames |-> 0]
    /\ samples \in 0..MaxSamples
    /\ log = <<>>
    /\ requires_grad = [k \in ParamNames |-> TRUE]
    /\ fast_lr = 1
    /\ reward_range = Rewards
    /\ InnerIdle

NextInner == InnerLossCall \/ ExampleBegin \/ SampleDraw \/ ExampleEnd \/ InnerLossReturn

SpecInner == InitInner /\ [][NextInner]_vars

\* -------------------------------------------------------- update_params()
\* Gradient values autograd returns, and the weights a mapping can hold.
GradVals == {-1, 0, 1}
UpWeightVals == {-1, 0, 2}
StepSizes == {1, 2}

\* What torch.autograd.grad finds for a loss and a mapping with keys K: a
\* gradient for each weight, and the weights the loss depends on.
Oracles(K, G) == [grad : [K -> G], used : SUBSET K]

\* Lines 117-118: torch.autograd.grad(inner_loss, names_weights_copy.values())
\* has allow_unused at its default False and needs a tensor as its output: it
\* raises for a Python float and for a weight the loss does not depend on.
AutogradError(loss, weights, oracle) ==
    IF loss.kind # "tensor" THEN "grad_of_float"
    ELSE IF (DOMAIN weights) \ oracle.used # {} THEN "unused_weight"
    ELSE "none"

\* Line 142 with the sign of the step lost.
UpdatedWeightAscent(w, lr, g) == w + lr * g

\* Line 142: names_weights_copy[key] - step_size * names_grads_wrt_params[key].
UpdatedWeight(w, lr, g) == w - lr * g

\* Line 142 written as an in-place update of the input tensors.
WeightsAfterCallInPlace(weights, updated) == updated

\* The input mapping after the call: lines 134-142 build a new dict of new
\* tensors and assign nothing to names_weights_copy.
WeightsAfterCall(weights, updated) == weights

\* Lines 92-156: the returned mapping, or the exception raised.
update_params(loss, weights, lr, oracle) ==
    LET err == AutogradError(loss, weights, oracle)
        names_grads_wrt_params == [k \in DOMAIN weights |-> oracle.grad[k]]
    IN  IF err # "none"
        THEN [err |-> err, dict |-> None]
        ELSE [err |-> "none",
              dict |-> [k \in DOMAIN names_grads_wrt_params |->
                           UpdatedWeight(weights[k], lr, names_grads_wrt_params[k])]]

\* One call of update_params on the arguments drawn by InitUpdate.
UpdateParamsCall ==
    /\ up_pc = "idle"
    /\ LET r == update_params(up_loss, up_weights, up_step_size, up_oracle)
       IN  IF r.err # "none"
           THEN /\ up_pc' = "raised"
                /\ up_ret' = None
                /\ UNCHANGED up_weights
           ELSE /\ up_pc' = "returned"
                /\ up_ret' = r.dict
                /\ up_weights' = WeightsAfterCall(up_weights, r.dict)
    /\ UNCHANGED <<up_loss, up_step_size, up_oracle, up_weights_at_call>>
    /\ UNCHANGED <<genVars, stepVars, objVars, innerVars, sampleVars>>

InitUpdate ==
    /\ mode = "update_params"
    /\ StepIdle /\ policy = [i \in 1..ParamDim |-> 0]
    /\ ObjIdle /\ InnerIdle /\ SampleIdle /\ GenIdle
    /\ up_pc = "idle"
    /\ up_loss \in {ZeroFloat, LossTensor(1)}
    /\ \E K \in (SUBSET ParamNames) \ {{}} :
          /\ up_weights \in [K -> UpWeightVals]
          /\ up_oracle \in Oracles(K, GradVals)
    /\ up_step_size \in StepSizes
    /\ up_ret = None
    /\ up_weights_at_call = up_weights

NextUpdate == UpdateParamsCall

SpecUpdate == InitUpdate /\ [][NextUpdate]_vars

\* ---------------------------------------------------------------- sample()
\* The requires_grad flags a network can have: all trainable, or "enc" frozen.
ReqGradMaps == {[k \in ParamNames |-> TRUE], [k \in ParamNames |-> k # "enc"]}

RECURSIVE ExamplesIn(_)
\* The number of examples of the tasks of a list.
ExamplesIn(ts) == IF ts = <<>> THEN 0 ELSE Len(Head(ts).examples) + ExamplesIn(Tail(ts))

\* The task lists sample() is given.
TaskLists ==
    {ts \in UNION {{[t \in 1..n |-> Task(t, size[t])] : size \in [1..n -> 0..MaxExamples]} :
                       n \in 0..MaxTasks} :
        ExamplesIn(ts) <= MaxExamples}

\* Gradient values autograd returns inside sample().
SampleGradVals == {0, 1}

\* Steps the outer optimizer can take on one parameter.
MetaDeltas == {0, 1}

\* Lines 66-81: the parameters with requires_grad, under their names; the
\* tensors are those of the network (param.to(device) makes no copy).
get_inner_loop_parameter_dict(params, rg) ==
    [k \in {n \in DOMAIN params : rg[n]} |-> params[k]]

\* Lines 351 and 357 with the result of update_params not assigned.
AdaptedWeightsDropped(result, previous) == previous

\* Lines 351 and 357: names_weights_copy = self.update_params(...).
AdaptedWeights(result, previous) == result

\* Line 362: torch.stack needs a non-empty list of tensors.
StackError(losses) ==
    IF losses = <<>> THEN "stack_of_nothing"
    ELSE IF \E i \in 1..Len(losses) : losses[i].kind # "tensor" THEN "stack_of_float"
    ELSE "none"

\* Line 362: torch.mean(torch.stack(task_losses)).
MeanOfLosses(losses) ==
    [kind |-> "tensor", mean_of |-> [i \in 1..Len(losses) |-> losses[i].id]]

InnerEvent(w, c) == [op |-> "inner_loss", weights |-> w, call |-> c]
UpdateEvent(l, w, r) == [op |-> "update_params", loss |-> l, weights |-> w, result |-> r]

\* Lines 325-328: the accumulators of sample().
SampleBegin ==
    /\ sm_pc = "idle"
    /\ tasks' \in TaskLists
    /\ task_i' = 0
    /\ task_losses' = <<>>
    /\ sm_total_samples' = 0
    /\ sm_skipped_samples' = 0
    /\ entry_params' = net_params
    /\ start_weights' = <<>>
    /\ sm_pc' = "for_task"
    /\ UNCHANGED <<names_weights_copy, sm_ret, sm_err, sm_trace, sm_kept>>
    /\ UNCHANGED <<genVars, stepVars, objVars, innerVars, updVars>>

\* Lines 331-335: the next task, its weight mapping and the first inner_loss.
TaskBegin ==
    /\ sm_pc = "for_task"
    /\ task_i < Len(tasks)
    /\ LET w == get_inner_loop_parameter_dict(net_params, requires_grad)
       IN  /\ names_weights_copy' = w
           /\ start_weights' = Append(start_weights, w)
           /\ InnerLossEnter(tasks[task_i + 1], Some(w))
           /\ sm_trace' = <<InnerEvent(w, il_call + 1)>>
    /\ sm_pc' = "inner1"
    /\ UNCHANGED <<tasks, task_i, task_losses, sm_total_samples, sm_skipped_samples,
                   sm_ret, sm_err, entry_params, sm_kept>>
    /\ UNCHANGED <<genVars, stepVars, updVars>>

\* Lines 335-354 (from = "inner1") and 354-360 (from = "inner2"): the counts
\* are added, update_params takes the loss just returned, and inner_loss is
\* called under the updated weights.
Adapt(from, to) ==
    /\ sm_pc = from
    /\ il_pc = "returned"
    /\ sm_total_samples' = sm_total_samples + il_ret.total_samples
    /\ sm_skipped_samples' = sm_skipped_samples + il_ret.skipped_samples
    /\ sm_kept' = (sm_kept \/ net_policies # <<>>)
    /\ \E o \in Oracles(DOMAIN names_weights_copy, SampleGradVals) :
          LET r == update_params(il_ret.loss, names_weights_copy, fast_lr, o)
              w == AdaptedWeights(r.dict, names_weights_copy)
          IN  IF r.err # "none"
              THEN /\ sm_pc' = "raised"
                   /\ sm_err' = r.err
                   /\ UNCHANGED <<names_weights_copy, sm_trace, innerVars, objVars>>
              ELSE /\ names_weights_copy' = w
                   /\ InnerLossEnter(tasks[task_i + 1], Some(w))
                   /\ sm_trace' = sm_trace \o
                          <<UpdateEvent(il_ret.loss, names_weights_copy, r.dict),
                            InnerEvent(w, il_call + 1)>>
                   /\ sm_pc' = to
                   /\ UNCHANGED sm_err
    /\ UNCHANGED <<tasks, task_i, task_losses, sm_ret, entry_params, start_weights>>
    /\ UNCHANGED <<genVars, stepVars, updVars>>

Adapt1 == Adapt("inner1", "inner2")

Adapt2 == Adapt("inner2", "meta")

\* Lines 360-361 with the counts of the third call added like the others.
CountAfterMetaLossAdded(acc, outer) == acc + outer

\* Lines 360-361: outer_total_samples and outer_skipped_samples are bound and
\* not used: the counts stay.
CountAfterMetaLoss(acc, outer) == acc

\* Lines 360-361: the meta-loss of the task joins task_losses.
TaskEnd ==
    /\ sm_pc = "meta"
    /\ il_pc = "returned"
    /\ sm_total_samples' = CountAfterMetaLoss(sm_total_samples, il_ret.total_samples)
    /\ sm_skipped_samples' = CountAfterMetaLoss(sm_skipped_samples, il_ret.skipped_samples)
    /\ task_losses' = Append(task_losses, il_ret.loss)
    /\ task_i' = task_i + 1
    /\ sm_kept' = (sm_kept \/ net_policies # <<>>)
    /\ sm_pc' = "for_task"
    /\ il_pc' = "idle"
    /\ il_task' = None /\ il_weights' = None
    /\ batch' = <<>> /\ input_batch' = <<>>
    /\ idx' = 0 /\ n_drawn' = 0
    /\ actions' = <<>> /\ argmax_reward' = 0 /\ sample_reward' = 0
    /\ r_argmax' = None
    /\ action_memory' = <<>>
    /\ net_policies' = <<>> /\ net_actions' = <<>> /\ net_advantages' = <<>>
    /\ total_samples' = 0 /\ skipped_samples' = 0
    /\ il_ret' = None
    /\ sampled' = <<>> /\ baselines' = <<>> /\ kept_rewards' = <<>>
    /\ UNCHANGED <<il_call, tasks, names_weights_copy, sm_ret, sm_err, sm_trace,
                   entry_params, start_weights>>
    /\ UNCHANGED <<genVars, stepVars, objVars, updVars>>

\* Lines 362-363: the mean of the task losses and the two counts.
SampleReturn ==
    /\ sm_pc = "for_task"
    /\ task_i = Len(tasks)
    /\ IF StackError(task_losses) # "none"
       THEN /\ sm_pc' = "raised"
            /\ sm_err' = StackError(task_losses)
            /\ UNCHANGED sm_ret
       ELSE /\ sm_pc' = "returned"
            /\ sm_ret' = [loss |-> MeanOfLosses(task_losses),
                          total_samples |-> sm_total_samples,
                          skipped_samples |-> sm_skipped_samples]
            /\ UNCHANGED sm_err
    /\ UNCHANGED <<tasks, task_i, task_losses, sm_total_samples, sm_skipped_samples,
                   names_weights_copy, sm_trace, entry_params, start_weights, sm_kept>>
    /\ UNCHANGED <<genVars, stepVars, objVars, innerVars, updVars>>

\* Lines 47-64: meta_update(loss) on the loss sample() returned: the outer
\* optimizer steps the trainable parameters of the network.
MetaUpdate ==
    /\ sm_pc = "returned"
    /\ \E d \in [ParamNames -> MetaDeltas] :
          net_params' = [k \in ParamNames |->
              IF requires_grad[k] THEN net_params[k] - d[k] ELSE net_params[k]]
    /\ sm_pc' = "updated"
    /\ UNCHANGED <<samples, log, requires_grad, fast_lr, reward_range, mode>>
    /\ UNCHANGED <<tasks, task_i, task_losses, sm_total_samples, sm_skipped_samples,
                   names_weights_copy, sm_ret, sm_err, sm_trace, entry_params,
                   start_weights, sm_kept>>
    /\ UNCHANGED <<genVars, stepVars, innerVars, updVars>>

InitSample ==
    /\ mode = "sample"
    /\ StepIdle /\ policy = [i \in 1..ParamDim |-> 0]
    /\ UpdateIdle /\ InnerIdle /\ SampleIdle /\ GenIdle
    /\ net_params = [k \in ParamNames |-> 0]
    /\ samples \in 0..MaxSamples
    /\ log = <<>>
    /\ requires_grad \in ReqGradMaps
    /\ fast_lr = 1
    \* sample() reads no reward: one reward value keeps its runs small.
    /\ reward_range = {0}

NextSample ==
    \/ SampleBegin \/ TaskBegin \/ Adapt1 \/ Adapt2 \/ TaskEnd \/ SampleReturn
    \/ MetaUpdate
    \/ ExampleBegin \/ SampleDraw \/ ExampleEnd \/ InnerLossReturn

SpecSample == InitSample /\ [][NextSample]_vars

\* ----------------------------------------- testGenerate() (generateTest2.py)
\* A string is a sequence of one-character strings.
Whitespace == {" ", "\n", "\t"}
Digits == <<"0", "1", "2", "3", "4", "5", "6", "7", "8", "9">>

\* The lines of v["state"] a record can carry (line 41), as read by
\* readlines(): with their newline.
StateLines == {<<"x", "\n">>, <<" ", "x", " ", "1", "\n">>}

RECURSIVE str(_)
\* str(count): the decimal digits of a natural number.
str(n) == IF n < 10 THEN <<Digits[n + 1]>> ELSE str(n \div 10) \o <<Digits[(n % 10) + 1]>>

RECURSIVE lstrip(_)
lstrip(t) == IF t # <<>> /\ Head(t) \in Whitespace THEN lstrip(Tail(t)) ELSE t

RECURSIVE rstrip(_)
rstrip(t) ==
    IF t # <<>> /\ t[Len(t)] \in Whitespace THEN rstrip(SubSeq(t, 1, Len(t) - 1)) ELSE t

\* str.strip(): leading and trailing whitespace removed.
strip(t) == lstrip(rstrip(t))

NotWhitespace(c) == c \notin Whitespace

\* Line 65: "".join(ID_string.split()), all whitespace removed.
JoinSplit(t) == SelectSeq(t, NotWhitespace)

\* Lines 62-65: ID_string = state.strip() + str(count), whitespace removed.
ID_string(state, n) == JoinSplit(strip(state) \o str(n))

\* Lines 66-92: question_info_new of a record; of its fields only the record
\* it was built from and its state are kept here.
QuestionInfo(state, n) == [record |-> n, state |-> strip(state)]

\* dict.setdefault(key, value): a key already present keeps its value.
setdefault(d, key, value) ==
    [k \in (DOMAIN d) \cup {key} |-> IF k \in DOMAIN d THEN d[k] ELSE value]

\* Lines 31-54: the input is loaded, count = 1 and the dictionary is empty.
GenBegin ==
    /\ tg_pc = "idle"
    /\ count' = 1
    /\ question_dict' = <<>>
    /\ tg_keys' = <<>>
    /\ tg_pc' = "loop"
    /\ UNCHANGED test_json
    /\ UNCHANGED <<stepVars, objVars, innerVars, updVars, sampleVars>>

\* Lines 55-94: one record of the zip of line 55.
GenRecord ==
    /\ tg_pc = "loop"
    /\ count <= MaxRecords
    /\ \E state \in StateLines :
          /\ question_dict' = setdefault(question_dict, ID_string(state, count),
                                         QuestionInfo(state, count))
          /\ tg_keys' = Append(tg_keys, ID_string(state, count))
    /\ count' = count + 1
    /\ UNCHANGED <<tg_pc, test_json>>
    /\ UNCHANGED <<stepVars, objVars, innerVars, updVars, sampleVars>>

\* Line 95: the shortest input of the zip is exhausted, the dictionary is
\* dumped.
GenWrite ==
    /\ tg_pc = "loop"
    /\ test_json' = Some(question_dict)
    /\ tg_pc' = "written"
    /\ UNCHANGED <<count, question_dict, tg_keys>>
    /\ UNCHANGED <<stepVars, objVars, innerVars, updVars, sampleVars>>

InitGen ==
    /\ mode = "testGenerate"
    /\ StepIdle /\ policy = [i \in 1..ParamDim |-> 0]
    /\ ObjIdle /\ InnerIdle /\ UpdateIdle /\ SampleIdle
    /\ GenIdle

NextGen == GenBegin \/ GenRecord \/ GenWrite

SpecGen == InitGen /\ [][NextGen]_vars

\* ------------------------------------------------------ the training run
\* The training driver runs one of the two paths of MetaLearner on an object:
\* the TRPO step, or the MAML loop of sample() followed by meta_update().
InitTrain == InitStep \/ InitSample

NextTrain ==
    \/ (mode = "step" /\ StepBegin)
    \/ (mode = "step" /\ LsAttempt)
    \/ (mode = "step" /\ LsRevert)
    \/ (mode = "sample" /\ SampleBegin)
    \/ (mode = "sample" /\ TaskBegin)
    \/ (mode = "sample" /\ Adapt1)
    \/ (mode = "sample" /\ Adapt2)
    \/ (mode = "sample" /\ TaskEnd)
    \/ (mode = "sample" /\ SampleReturn)
    \/ (mode = "sample" /\ MetaUpdate)
    \/ (mode = "sample" /\ ExampleBegin)
    \/ (mode = "sample" /\ SampleDraw)
    \/ (mode = "sample" /\ ExampleEnd)
    \/ (mode = "sample" /\ InnerLossReturn)

SpecTrain == InitTrain /\ [][NextTrain]_vars

\* ======================================================================
\* Properties of step()
\* ======================================================================

\* The acceptance condition as the specification words it: the new loss is
\* strictly lower than the old loss and the new KL strictly below max_kl.
StrictlyBetter(t) == t.loss < old_loss /\ t.kl < max_kl

\* C1: when step() has returned, (a) if the first attempt (step size 1.0)
\* satisfied both conditions the parameters are old_params - 1.0 * step,
\* and (b) if no attempt satisfied both, the parameters are old_params.
C1_LineSearchFirstOrRevert ==
    st_pc = "returned" =>
        /\ (Len(ls_tried) >= 1 /\ StrictlyBetter(ls_tried[1]))
               => policy = [i \in 1..ParamDim |-> old_params[i] - 1 * step[i]]
        /\ (\A k \in 1..Len(ls_tried) : ~StrictlyBetter(ls_tried[k]))
               => (policy = old_params /\ Len(ls_tried) = ls_max_steps)

\* C1 witness: every one of ls_max_steps = MaxLsSteps attempts of a non-zero
\* step failed and step() returned with the saved parameters.
C1_Witness ==
    /\ st_pc = "returned"
    /\ ls_max_steps = MaxLsSteps
    /\ Len(ls_tried) = MaxLsSteps
    /\ \A k \in 1..Len(ls_tried) : ~StrictlyBetter(ls_tried[k])
    /\ step # [i \in 1..ParamDim |-> 0]
    /\ policy = old_params

\* C2: an attempt is accepted iff its loss is strictly lower and its KL
\* strictly below max_kl: an accepted attempt ends the search with the
\* candidate in place, a rejected one (ties included) is followed by an
\* attempt with the step size multiplied by ls_backtrack_ratio, or by the
\* revert once ls_max_steps attempts were made.
C2_StrictAcceptance ==
    /\ \A k \in 1..Len(ls_tried) :
          /\ ls_tried[k].step_size =
                 (IF k = 1 THEN <<1, 1>>
                  ELSE <<ls_tried[k-1].step_size[1] * ls_backtrack_ratio[1],
                         ls_tried[k-1].step_size[2] * ls_backtrack_ratio[2]>>)
          /\ k < Len(ls_tried) => ~StrictlyBetter(ls_tried[k])
          /\ (ls_tried[k].loss = old_loss \/ ls_tried[k].kl = max_kl)
                 => (k < Len(ls_tried) \/ st_pc = "line_search" \/ policy = old_params)
    /\ (Len(ls_tried) >= 1 /\ StrictlyBetter(ls_tried[Len(ls_tried)]))
          => /\ st_pc = "returned"
             /\ policy = [i \in 1..ParamDim |->
                    old_params[i] - (ls_tried[Len(ls_tried)].step_size[1] * step[i])
                                       \div ls_tried[Len(ls_tried)].step_size[2]]
    /\ (st_pc = "returned" /\ Len(ls_tried) >= 1 /\ ~StrictlyBetter(ls_tried[Len(ls_tried)]))
          => (Len(ls_tried) = ls_max_steps /\ policy = old_params)
    /\ st_pc = "line_search"
          => /\ \A k \in 1..Len(ls_tried) : ~StrictlyBetter(ls_tried[k])
             /\ Len(ls_tried) <= ls_max_steps
             /\ ENABLED (LsAttempt \/ LsRevert)

\* C2 witness: a tie on the loss and a tie on the KL were both rejected and
\* the third, strictly better attempt was accepted.
C2_Witness ==
    /\ st_pc = "returned"
    /\ Len(ls_tried) = 3
    /\ ls_tried[1].loss = old_loss /\ ls_tried[1].kl < max_kl
    /\ ls_tried[2].loss < old_loss /\ ls_tried[2].kl = max_kl
    /\ StrictlyBetter(ls_tried[3])
    /\ step # [i \in 1..ParamDim |-> 0]

\* C11: within one step() call the reference distributions old_pis are those
\* of line 489, computed under the parameters held before the line search
\* and detached; every line-search attempt computes its loss and KL against
\* exactly these, with gradients disabled for every pair of episodes.
C11_OldPisCachedOnce ==
    st_pc # "idle" =>
        /\ Len(old_pis) = episodes
        /\ \A e \in 1..episodes :
              old_pis[e] = [episode |-> e, under |-> old_params, grad |-> FALSE]
        /\ \A k \in 1..Len(ls_tried) :
              /\ ls_tried[k].refs = old_pis
              /\ \A e \in 1..episodes : ~ls_tried[k].grad_enabled[e]

\* C11 witness: two pairs of episodes, and a second attempt accepted at
\* parameters that differ from the saved ones.
C11_Witness ==
    /\ st_pc = "returned"
    /\ episodes = 2
    /\ Len(ls_tried) = 2
    /\ policy # old_params
    /\ ls_tried[2].refs[2].under = old_params

\* C12: the line search makes at most ls_max_steps attempts and then step()
\* returns; attempt number k, counted from 0, writes the candidate
\* old_params - ls_backtrack_ratio^k * step; with ls_max_steps = 0 no attempt
\* is made and step() returns with the parameters equal to old_params.
C12_LineSearchTerminates ==
    /\ [](/\ Len(ls_tried) <= ls_max_steps
          /\ \A k \in 1..Len(ls_tried) :
                /\ ls_tried[k].step_size = <<Pow(ls_backtrack_ratio[1], k - 1),
                                             Pow(ls_backtrack_ratio[2], k - 1)>>
                /\ ls_tried[k].params =
                       [i \in 1..ParamDim |->
                           old_params[i] - (Pow(ls_backtrack_ratio[1], k - 1) * step[i])
                                              \div Pow(ls_backtrack_ratio[2], k - 1)]
          /\ (st_pc = "returned" /\ ls_max_steps = 0)
                => (ls_tried = <<>> /\ policy = old_params))
    /\ (st_pc = "line_search") ~> (st_pc = "returned")

\* C12 witness: with ratio 1/3 all of MaxLsSteps attempts were made, the last
\* at a candidate of its own, and step() returned.
C12_Witness ==
    /\ st_pc = "returned"
    /\ ls_max_steps = MaxLsSteps
    /\ Len(ls_tried) = MaxLsSteps
    /\ ls_backtrack_ratio = <<1, 3>>
    /\ ls_tried[MaxLsSteps].step_size = <<1, Pow(3, MaxLsSteps - 1)>>
    /\ ls_tried[MaxLsSteps].params # ls_tried[1].params

\* C12 witness of the empty search: ls_max_steps = 0 and step() returned.
C12_WitnessNoAttempt == st_pc = "returned" /\ ls_max_steps = 0 /\ step # [i \in 1..ParamDim |-> 0]

CandidateOf(k) ==
    [i \in 1..ParamDim |->
        old_params[i] - (Pow(ls_backtrack_ratio[1], k) * step[i])
                           \div Pow(ls_backtrack_ratio[2], k)]

\* The attempts, counted from 0, whose loss and KL passed both tests.
Acceptable == {k \in 0..(Len(ls_tried) - 1) : StrictlyBetter(ls_tried[k + 1])}

\* C14: when step() has returned, the parameters are the candidate of the
\* smallest attempt number k < ls_max_steps whose loss is below old_loss and
\* whose KL is below max_kl, and old_params when no attempt made is such; no
\* attempt is made beyond the first acceptable one.
C14_SmallestAcceptableOrOld ==
    st_pc = "returned" =>
        IF Acceptable # {}
        THEN LET k == CHOOSE a \in Acceptable : \A b \in Acceptable : a <= b
             IN  /\ policy = CandidateOf(k)
                 /\ k < ls_max_steps
                 /\ Len(ls_tried) = k + 1
        ELSE /\ policy = old_params
             /\ Len(ls_tried) = ls_max_steps

\* C14 witness: with ratio 1/2 the first attempt failed on the KL alone, the
\* second on the loss alone, and the third was accepted at a quarter step.
C14_Witness ==
    /\ st_pc = "returned"
    /\ ls_backtrack_ratio = <<1, 2>>
    /\ Len(ls_tried) = 3
    /\ ls_tried[1].loss < old_loss /\ ls_tried[1].kl > max_kl
    /\ ls_tried[2].loss > old_loss /\ ls_tried[2].kl < max_kl
    /\ Acceptable = {2}
    /\ policy = CandidateOf(2)
    /\ policy # old_params /\ policy # CandidateOf(1)

\* ======================================================================
\* Properties of inner_loss()
\* ======================================================================

RECURSIVE SumCard(_)
\* The number of distinct sequences sampled, added up over the examples.
SumCard(sets) == IF sets = <<>> THEN 0 ELSE Cardinality(Head(sets)) + SumCard(Tail(sets))

RECURSIVE TokensIn(_)
\* The number of tokens of the sequences of a set.
TokensIn(S) ==
    IF S = {} THEN 0 ELSE LET a == CHOOSE x \in S : TRUE IN Len(a) + TokensIn(S \ {a})

RECURSIVE SumTokens(_)
SumTokens(sets) == IF sets = <<>> THEN 0 ELSE TokensIn(Head(sets)) + SumTokens(Tail(sets))

\* The indices of the kept samples (entries of net_policies) of example i.
KeptOf(i) == {j \in 1..Len(net_policies) : net_policies[j].idx = i}

\* C3: within one inner_loss call every distinct sequence sampled for an
\* example is in net_policies exactly once (a repeated sequence adds nothing
\* to net_policies, net_actions or net_advantages), and the skipped count is
\* the number of repeats: per example, samples minus the distinct sequences.
C3_DuplicatesNeverCounted ==
    /\ \A i \in 1..Len(sampled) :
          /\ Cardinality(KeptOf(i - 1)) = Cardinality(sampled[i])
          /\ {net_policies[j].actions : j \in KeptOf(i - 1)} = sampled[i]
    /\ Len(net_policies) = SumCard(sampled)
    /\ Len(net_actions) = SumTokens(sampled)
    /\ Len(net_advantages) = SumTokens(sampled)
    /\ skipped_samples = total_samples - SumCard(sampled)
    /\ il_pc = "returned" =>
          /\ Len(sampled) = Len(input_batch)
          /\ il_ret.skipped_samples = Len(input_batch) * samples - SumCard(sampled)

\* C3 witness: two examples, three samples each, two of the three identical:
\* one sample skipped per example.
C3_Witness ==
    /\ il_pc = "returned"
    /\ Len(input_batch) = 2 /\ samples = 3
    /\ \A i \in 1..Len(sampled) : Cardinality(sampled[i]) = 2
    /\ il_ret.skipped_samples = 2
    /\ Len(net_policies) = 4

\* C4: a call that kept no sample returns the float zero with the two
\* counts, after the log notice; the return is always possible (no raise).
C4_EmptyPoliciesZeroLoss ==
    /\ (il_pc = "returned" /\ net_policies = <<>>) =>
          /\ il_ret.loss = [kind |-> "float", value |-> 0]
          /\ il_ret.total_samples = total_samples
          /\ il_ret.skipped_samples = skipped_samples
          /\ Len(log) >= 1 /\ log[Len(log)] = EmptyNotice
    /\ (il_pc = "for_example" /\ idx = Len(input_batch)) => ENABLED InnerLossReturn

\* C4 witness: a batch of two examples with samples = 0 returned zero.
C4_Witness ==
    /\ il_pc = "returned"
    /\ Len(input_batch) = 2
    /\ samples = 0
    /\ net_policies = <<>>
    /\ il_ret.loss.kind = "float"

RECURSIVE TokensBefore(_)
\* The number of tokens of the kept samples in front of the j-th.
TokensBefore(j) == IF j <= 1 THEN 0 ELSE Len(net_policies[j-1].actions) + TokensBefore(j - 1)

\* C10: every token of a kept sample carries the advantage reward(sample) -
\* reward(argmax decode of the same example), and net_advantages and
\* net_actions run in step: the i-th advantage belongs to the i-th action.
C10_AdvantagePerToken ==
    /\ Len(net_advantages) = Len(net_actions)
    /\ Len(kept_rewards) = Len(net_policies)
    /\ Len(net_actions) = TokensBefore(Len(net_policies) + 1)
    /\ \A j \in 1..Len(net_policies) :
          \A t \in 1..Len(net_policies[j].actions) :
              /\ net_actions[TokensBefore(j) + t] = net_policies[j].actions[t]
              /\ net_advantages[TokensBefore(j) + t] =
                     kept_rewards[j] - baselines[net_policies[j].idx + 1]

\* C10 witness: a kept two-token sample with advantage -1 follows other kept
\* samples, in a call over two examples.
C10_Witness ==
    /\ il_pc = "returned"
    /\ Len(input_batch) = 2
    /\ \E j \in 2..Len(net_policies) :
          /\ Len(net_policies[j].actions) = 2
          /\ kept_rewards[j] - baselines[net_policies[j].idx + 1] = -1
          /\ net_policies[j].idx = 1

\* C15: a stochastic sample is skipped if and only if the same sequence was
\* kept before for the same example in the same call, and kept otherwise; the
\* memory is empty when the sampling of an example begins, so what was kept
\* for another example does not count, and the example's argmax decode is
\* not in the memory: a sample that repeats it is kept.
C15_SkipIffSeenInExample ==
    /\ []((il_pc = "for_sample" /\ n_drawn = 0)
             => (action_memory = <<>> /\ KeptOf(idx) = {} /\ r_argmax.idx = idx))
    /\ [][n_drawn' = n_drawn + 1 =>
             LET seen == \E j \in KeptOf(idx) : net_policies[j].actions = actions'
                 skipped == /\ skipped_samples' = skipped_samples + 1
                            /\ net_policies' = net_policies
                            /\ net_actions' = net_actions
                 kept == /\ skipped_samples' = skipped_samples
                         /\ net_policies' = Append(net_policies, [idx |-> idx, actions |-> actions'])
             IN  /\ seen <=> skipped
                 /\ ~seen <=> kept
                 /\ (actions' = r_argmax.actions /\ ~seen) => kept]_vars

\* C15 witness: the same sequence was kept for both examples of the call, it
\* is also the argmax decode of the second example, and a repeat of it was
\* skipped.
C15_Witness ==
    /\ il_pc = "returned"
    /\ Len(input_batch) = 2
    /\ \E j \in KeptOf(0), k \in KeptOf(1) :
          /\ net_policies[j].actions = net_policies[k].actions
          /\ net_policies[k].actions = r_argmax.actions
    /\ r_argmax.idx = 1
    /\ skipped_samples >= 1

\* C16: the first stochastic sample of every example is kept; so a call over
\* at least one example with samples >= 1 ends with net_policies non-empty
\* and returns a loss tensor, and the zero-loss return is taken exactly when
\* the batch is empty or samples = 0.
C16_FirstSampleKept ==
    /\ [][(n_drawn = 0 /\ n_drawn' = 1) =>
             /\ net_policies' = Append(net_policies, [idx |-> idx, actions |-> actions'])
             /\ skipped_samples' = skipped_samples]_vars
    /\ []((il_pc = "for_sample" /\ n_drawn >= 1) => KeptOf(idx) # {})
    /\ [](il_pc = "returned" =>
             /\ (Len(input_batch) >= 1 /\ samples >= 1)
                    => (net_policies # <<>> /\ il_ret.loss.kind = "tensor"
                        /\ \A i \in 0..(Len(input_batch) - 1) : KeptOf(i) # {})
             /\ il_ret.loss = [kind |-> "float", value |-> 0]
                    <=> (Len(input_batch) = 0 \/ samples = 0))

\* C16 witness: two examples, three samples each, all three the same
\* sequence: only the first of each example was kept and the call returned a
\* loss tensor.
C16_Witness ==
    /\ il_pc = "returned"
    /\ Len(input_batch) = 2 /\ samples = 3
    /\ Len(net_policies) = 2
    /\ il_ret.skipped_samples = 4
    /\ il_ret.loss.kind = "tensor"

\* ======================================================================
\* Properties of update_params()
\* ======================================================================

\* C6: a call of update_params that returns gives a mapping with exactly
\* the keys of its input, each weight the input weight minus step_size times
\* the gradient found for that key, and leaves the input mapping as it was.
C6_UpdateIsGradientStep ==
    up_pc = "returned" =>
        /\ DOMAIN up_ret = DOMAIN up_weights_at_call
        /\ \A k \in DOMAIN up_weights_at_call :
              up_ret[k] = up_weights_at_call[k] - up_step_size * up_oracle.grad[k]
        /\ DOMAIN up_weights = DOMAIN up_weights_at_call
        /\ \A k \in DOMAIN up_weights_at_call : up_weights[k] = up_weights_at_call[k]

\* C6 witness: a returned call over two weights with two different non-zero
\* gradients and step size 2.
C6_Witness ==
    /\ up_pc = "returned"
    /\ DOMAIN up_weights_at_call = ParamNames
    /\ up_step_size = 2
    /\ up_oracle.grad["enc"] = 1 /\ up_oracle.grad["dec"] = -1
    /\ up_ret["enc"] = up_weights_at_call["enc"] - 2
    /\ up_ret["dec"] = up_weights_at_call["dec"] + 2

\* C7 (as claimed): when the loss is a tensor that does not depend on some
\* weight of the mapping, the call returns and gives that weight back
\* unchanged.
C7_UnusedWeightsAreZeroGrad ==
    (up_pc # "idle" /\ up_loss.kind = "tensor"
         /\ (DOMAIN up_weights_at_call) \ up_oracle.used # {})
    => /\ up_pc = "returned"
       /\ \A k \in (DOMAIN up_weights_at_call) \ up_oracle.used :
              up_ret[k] = up_weights_at_call[k]

\* ======================================================================
\* Properties of sample()
\* ======================================================================

\* C5 (as claimed): when sample() is given tasks and no inner_loss call
\* keeps a sample, sample() does not raise, and the loss it returns is zero.
C5_ZeroLossFlowsThrough ==
    (Len(tasks) >= 1 /\ ~sm_kept) =>
        /\ sm_pc # "raised"
        /\ sm_pc = "returned" => sm_ret.loss.kind = "float"

\* The number of the task the trace belongs to, counted from 0.
TraceTask == Len(start_weights) - 1

\* C8: for every task the calls run in the order inner_loss, update_params,
\* inner_loss, update_params, inner_loss, once each: the first inner_loss
\* under the mapping the task started from, each update_params on the loss
\* and the mapping of the inner_loss just before it, each later inner_loss
\* under the mapping the update before it returned; and sample() returns the
\* mean of one meta-loss per task, the loss of the task's third inner_loss.
C8_TwoStepOrder ==
    /\ Len(sm_trace) <= 5
    /\ sm_pc = "inner1" => Len(sm_trace) = 1
    /\ sm_pc = "inner2" => Len(sm_trace) = 3
    /\ sm_pc = "meta" => Len(sm_trace) = 5
    /\ \A i \in 1..Len(sm_trace) :
          IF i % 2 = 1
          THEN /\ sm_trace[i].op = "inner_loss"
               /\ sm_trace[i].call = 3 * TraceTask + (i + 1) \div 2
          ELSE /\ sm_trace[i].op = "update_params"
               /\ sm_trace[i].loss.kind = "tensor"
               /\ sm_trace[i].loss.id = sm_trace[i-1].call
               /\ sm_trace[i].weights = sm_trace[i-1].weights
               /\ sm_trace[i+1].weights = sm_trace[i].result
    /\ Len(sm_trace) >= 1 =>
          /\ sm_trace[1].weights = start_weights[Len(start_weights)]
          /\ names_weights_copy = sm_trace[Len(sm_trace)].weights
          /\ sm_pc \in {"inner1", "inner2", "meta"} =>
                 /\ il_call = sm_trace[Len(sm_trace)].call
                 /\ il_weights = <<names_weights_copy>>
    /\ Len(task_losses) = task_i
    /\ \A t \in 1..Len(task_losses) :
          task_losses[t].kind = "tensor" /\ task_losses[t].id = 3 * t
    /\ sm_pc = "returned" =>
          /\ Len(task_losses) = Len(tasks)
          /\ il_call = 3 * Len(tasks)
          /\ sm_ret.loss.mean_of = [t \in 1..Len(tasks) |-> 3 * t]

\* C8 witness: sample() returned for two tasks, and in the second task both
\* updates changed the weights.
C8_Witness ==
    /\ sm_pc = "returned"
    /\ Len(tasks) = 2
    /\ Len(sm_trace) = 5
    /\ sm_trace[2].result # sm_trace[2].weights
    /\ sm_trace[4].result # sm_trace[4].weights

\* C9 (as claimed): every task starts its adaptation from the parameters the
\* network had when sample() was entered, and until meta_update runs the
\* network's parameters are those it had at entry.
C9_TasksStartFromEntryParams ==
    /\ \A t \in 1..Len(start_weights) :
          start_weights[t] = get_inner_loop_parameter_dict(entry_params, requires_grad)
    /\ sm_pc \in {"for_task", "inner1", "inner2", "meta", "returned", "raised"}
          => net_params = entry_params

\* C17: the counts sample() returns add up the counts of the first two
\* inner_loss calls of each task, never those of the third: every inner_loss
\* call counts examples * samples, so the returned total_samples is
\* 2 * (examples of all tasks) * samples, and skipped_samples is at most that.
C17_CountsOfTwoEvaluations ==
    /\ [](il_pc = "returned" =>
             /\ il_ret.total_samples = Len(input_batch) * samples
             /\ il_ret.skipped_samples <= il_ret.total_samples)
    /\ [](sm_pc = "returned" =>
             /\ sm_ret.total_samples = 2 * ExamplesIn(tasks) * samples
             /\ sm_ret.skipped_samples <= sm_ret.total_samples)
    /\ [][/\ (sm_pc = "inner1" /\ sm_pc' = "inner2") \/ (sm_pc = "inner2" /\ sm_pc' = "meta")
               => /\ sm_total_samples' = sm_total_samples + il_ret.total_samples
                  /\ sm_skipped_samples' = sm_skipped_samples + il_ret.skipped_samples
          /\ (sm_pc = "meta" /\ sm_pc' = "for_task")
               => /\ sm_total_samples' = sm_total_samples
                  /\ sm_skipped_samples' = sm_skipped_samples]_vars

\* C17 witness: two tasks of one example each with samples = 3, every call
\* skipping two repeats: 12 samples counted, 8 of them skipped.
C17_Witness ==
    /\ sm_pc = "returned"
    /\ Len(tasks) = 2 /\ samples = 3
    /\ sm_ret.total_samples = 12
    /\ sm_ret.skipped_samples = 8

\* ======================================================================
\* Properties of testGenerate()
\* ======================================================================

\* C18 (as claimed): the keys of the records processed are pairwise
\* distinct, so the dictionary holds one entry per record, the entry built
\* from that record, and the file written holds as many entries as records
\* were processed.
C18_OneEntryPerRecord ==
    /\ \A i, j \in 1..Len(tg_keys) : i # j => tg_keys[i] # tg_keys[j]
    /\ tg_pc \in {"loop", "written"} =>
          /\ Len(tg_keys) = count - 1
          /\ Cardinality(DOMAIN question_dict) = count - 1
          /\ \A i \in 1..Len(tg_keys) : question_dict[tg_keys[i]].record = i
    /\ tg_pc = "written" => Cardinality(DOMAIN test_json[1]) = count - 1

====
